---- MODULE Spec2Model ----
(***************************************************************************)
(* Confidence interval for a population mean with the t-distribution, as   *)
(* computed by the code cells of index.ipynb: np.mean, np.std(ddof = 1),   *)
(* s / np.sqrt(n) and scipy.stats.t.interval.                              *)
(*                                                                         *)
(* The notebook computes in IEEE-754 binary64 (numpy float64).  The model  *)
(* keeps that arithmetic bit for bit: a float is a sign, an odd            *)
(* significand kept as a little-endian sequence of 15-bit limbs, and a     *)
(* binary exponent; every operation rounds to nearest, ties to even.       *)
(***************************************************************************)
EXTENDS Integers, Sequences, FiniteSets, TLC

VARIABLES pc, sample_chol_levels, x_bar, s, se, out, t_median

vars == <<pc, sample_chol_levels, x_bar, s, se, out, t_median>>

(***************************************************************************)
(* Natural numbers of any size: limbs in base 2^15, least significant      *)
(* first, no leading zero limb; << >> is zero.                             *)
(***************************************************************************)
LimbBits == 15

Base == 32768

Max(a, b) == IF a >= b THEN a ELSE b

Min(a, b) == IF a <= b THEN a ELSE b

RECURSIVE BNorm(_)
BNorm(x) ==
  IF x = << >> THEN << >>
  ELSE IF x[Len(x)] = 0 THEN BNorm(SubSeq(x, 1, Len(x) - 1)) ELSE x

RECURSIVE BFromInt(_)
BFromInt(n) == IF n = 0 THEN << >> ELSE <<n % Base>> \o BFromInt(n \div Base)

RECURSIVE BAddC(_, _, _)
BAddC(x, y, c) ==
  IF x = << >> /\ y = << >>
  THEN IF c = 0 THEN << >> ELSE <<c>>
  ELSE LET a == IF x = << >> THEN 0 ELSE Head(x)
           b == IF y = << >> THEN 0 ELSE Head(y)
           t == a + b + c
       IN <<t % Base>> \o BAddC(IF x = << >> THEN x ELSE Tail(x),
                                IF y = << >> THEN y ELSE Tail(y),
                                t \div Base)

BAdd(x, y) == BAddC(x, y, 0)

\* x - y for x >= y
RECURSIVE BSubC(_, _, _)
BSubC(x, y, c) ==
  IF x = << >> THEN << >>
  ELSE LET b == IF y = << >> THEN 0 ELSE Head(y)
           t == Head(x) - b - c
       IN <<t % Base>> \o BSubC(Tail(x),
                                IF y = << >> THEN y ELSE Tail(y),
                                IF t < 0 THEN 1 ELSE 0)

BSub(x, y) == BNorm(BSubC(x, y, 0))

\* -1, 0, 1 as x < y, x = y, x > y
RECURSIVE BCmpFrom(_, _, _)
BCmpFrom(x, y, i) ==
  IF i = 0 THEN 0
  ELSE IF x[i] < y[i] THEN -1
  ELSE IF x[i] > y[i] THEN 1
  ELSE BCmpFrom(x, y, i - 1)

BCmp(x, y) ==
  IF Len(x) < Len(y) THEN -1
  ELSE IF Len(x) > Len(y) THEN 1
  ELSE BCmpFrom(x, y, Len(x))

\* x * k + c for 0 <= k, c < Base
RECURSIVE BMulSmallC(_, _, _)
BMulSmallC(x, k, c) ==
  IF x = << >>
  THEN IF c = 0 THEN << >> ELSE <<c>>
  ELSE LET t == Head(x) * k + c
       IN <<t % Base>> \o BMulSmallC(Tail(x), k, t \div Base)

BMulSmall(x, k) == IF k = 0 THEN << >> ELSE BMulSmallC(x, k, 0)

\* x * Base^q
BShiftLimbs(x, q) == IF x = << >> THEN << >> ELSE [i \in 1..q |-> 0] \o x

RECURSIVE BMul(_, _)
BMul(x, y) ==
  IF x = << >> \/ y = << >> THEN << >>
  ELSE BAdd(BMulSmall(x, Head(y)), BShiftLimbs(BMul(x, Tail(y)), 1))

\* x * 2^k
BShl(x, k) == BShiftLimbs(BMulSmall(x, 2 ^ (k % LimbBits)), k \div LimbBits)

\* floor(x / d) for 0 < d < Base, from the most significant limb down
RECURSIVE BDivSmallFrom(_, _, _, _)
BDivSmallFrom(x, d, i, r) ==
  IF i = 0 THEN << >>
  ELSE LET t == r * Base + x[i]
       IN BDivSmallFrom(x, d, i - 1, t % d) \o <<t \div d>>

BDivSmall(x, d) == BNorm(BDivSmallFrom(x, d, Len(x), 0))

\* floor(x / 2^k)
BShr(x, k) ==
  LET q == k \div LimbBits
  IN IF q >= Len(x) THEN << >>
     ELSE BDivSmall(SubSeq(x, q + 1, Len(x)), 2 ^ (k % LimbBits))

\* number of bits of a limb, and of a natural
RECURSIVE IntBits(_)
IntBits(n) == IF n = 0 THEN 0 ELSE 1 + IntBits(n \div 2)

BBits(x) ==
  IF x = << >> THEN 0 ELSE LimbBits * (Len(x) - 1) + IntBits(x[Len(x)])

\* bit i (0 = least significant) of x
BBit(x, i) ==
  LET q == i \div LimbBits
  IN IF q >= Len(x) THEN 0 ELSE (x[q + 1] \div (2 ^ (i % LimbBits))) % 2

BOdd(x) == x # << >> /\ x[1] % 2 = 1

\* trailing zero bits of x # 0
RECURSIVE IntTz(_)
IntTz(n) == IF n % 2 = 1 THEN 0 ELSE 1 + IntTz(n \div 2)

RECURSIVE BTz(_)
BTz(x) == IF Head(x) = 0 THEN LimbBits + BTz(Tail(x)) ELSE IntTz(Head(x))

\* <<floor(x / d), x mod d>> for 0 < d < Base: short division from the top limb
RECURSIVE BDivModSmallFrom(_, _, _)
BDivModSmallFrom(x, d, i) ==
  IF i > Len(x) THEN <<<< >>, 0>>
  ELSE LET p == BDivModSmallFrom(x, d, i + 1)
           t == p[2] * Base + x[i]
       IN <<<<t \div d>> \o p[1], t % d>>

\* one limb of a long division: the k < Base with k * d <= cur < (k + 1) * d, for
\* cur < d * Base and the top limb of d at least Base / 2.  The two top limbs of cur
\* over the top limb of d overestimate k by at most 2.
BQuotientLimb(cur, d) ==
  LET m == Len(d)
      hi == IF Len(cur) > m THEN cur[m + 1] ELSE 0
      lo == IF Len(cur) >= m THEN cur[m] ELSE 0
      est == Min((hi * Base + lo) \div d[m], Base - 1)
  IN IF BCmp(BMulSmall(d, est), cur) <= 0 THEN est
     ELSE IF BCmp(BMulSmall(d, est - 1), cur) <= 0 THEN est - 1
     ELSE est - 2

\* <<floor(n / d), n mod d>> of the limbs i.. of n, one quotient limb at a time
\* from the top, for d as in BQuotientLimb
RECURSIVE BLongDivFrom(_, _, _)
BLongDivFrom(n, d, i) ==
  IF i > Len(n) THEN <<<< >>, << >>>>
  ELSE LET p == BLongDivFrom(n, d, i + 1)
           cur == BNorm(<<n[i]>> \o p[2])
       IN IF BCmp(cur, d) < 0
          THEN <<<<0>> \o p[1], cur>>
          ELSE LET k == BQuotientLimb(cur, d)
               IN <<<<k>> \o p[1], BSub(cur, BMulSmall(d, k))>>

\* <<floor(n / d), n mod d>> for d # 0.  A divisor of several limbs is first
\* scaled, with n, to bring its top limb to at least Base / 2.
BDivMod(n, d) ==
  IF Len(d) = 1
  THEN LET p == BDivModSmallFrom(n, d[1], 1)
       IN <<BNorm(p[1]), BFromInt(p[2])>>
  ELSE LET sh == LimbBits - IntBits(d[Len(d)])
           ns == BShl(n, sh)
           ds == BShl(d, sh)
           p == BLongDivFrom(ns, ds, 1)
       IN <<BNorm(p[1]), BShr(p[2], sh)>>

\* floor(sqrt(n)) by Newton's iteration downwards from x >= sqrt(n)
RECURSIVE BSqrtIter(_, _)
BSqrtIter(n, x) ==
  LET y == BShr(BAdd(x, BDivMod(n, x)[1]), 1)
  IN IF BCmp(y, x) >= 0 THEN x ELSE BSqrtIter(n, y)

BSqrt(n) ==
  IF n = << >> THEN << >>
  ELSE LET x0 == BShl(<<1>>, (BBits(n) + 1) \div 2) IN BSqrtIter(n, x0)

(***************************************************************************)
(* IEEE-754 binary64.  A finite float is (-1)^sgn * man * 2^exp with man    *)
(* odd (zero: man = << >>, exp = 0, and no sign: the notebook never         *)
(* divides by a signed zero, so -0.0 and 0.0 are not told apart).           *)
(***************************************************************************)
Prec == 53

\* 2^EMin is the smallest subnormal; every finite float is below 2^EMax
EMin == -1074

EMax == 1024

Dbl(sg, m, e) == [cls |-> "fin", sgn |-> sg, man |-> m, exp |-> e]

FZero == Dbl(0, << >>, 0)

FInf(sg) == [cls |-> "inf", sgn |-> sg, man |-> << >>, exp |-> 0]

FNaN == [cls |-> "nan", sgn |-> 0, man |-> << >>, exp |-> 0]

IsNaN(a) == a.cls = "nan"

IsInf(a) == a.cls = "inf"

IsZero(a) == a.cls = "fin" /\ a.man = << >>

\* the float of value m * 2^e exactly, for m # 0 of at most Prec bits
FCanon(sg, m, e) == LET z == BTz(m) IN Dbl(sg, BShr(m, z), e + z)

\* the float nearest to (-1)^sg * (n + f) * 2^e, ties to even, where 0 <= f < 1
\* and sticky says whether f > 0; beyond the largest finite float, infinity
FRound(sg, n, e, sticky) ==
  IF n = << >> THEN FZero
  ELSE LET k == Max(BBits(n) - Prec, EMin - e)
       IN IF k <= 0
          THEN IF BBits(n) + e > EMax THEN FInf(sg) ELSE FCanon(sg, n, e)
          ELSE LET q == BShr(n, k)
                   half == BBit(n, k - 1) = 1
                   below == sticky \/ BTz(n) < k - 1
                   up == half /\ (below \/ BOdd(q))
                   r == IF up THEN BAdd(q, <<1>>) ELSE q
               IN IF r = << >> THEN FZero
                  ELSE IF BBits(r) + e + k > EMax THEN FInf(sg)
                  ELSE FCanon(sg, r, e + k)

\* position of the leading bit of a finite nonzero float
Top(a) == BBits(a.man) + a.exp

FNeg(a) == IF a.cls = "nan" \/ IsZero(a) THEN a ELSE [a EXCEPT !.sgn = 1 - a.sgn]

\* -1, 0, 1 as |a| < |b|, |a| = |b|, |a| > |b|, for finite nonzero a and b
MagCmp(a, b) ==
  IF Top(a) < Top(b) THEN -1
  ELSE IF Top(a) > Top(b) THEN 1
  ELSE LET e == Min(a.exp, b.exp)
       IN BCmp(BShl(a.man, a.exp - e), BShl(b.man, b.exp - e))

\* a < b; false when either is NaN
FLess(a, b) ==
  IF a.cls = "nan" \/ b.cls = "nan" THEN FALSE
  ELSE IF a.cls = "inf" THEN a.sgn = 1 /\ ~(b.cls = "inf" /\ b.sgn = 1)
  ELSE IF b.cls = "inf" THEN b.sgn = 0
  ELSE IF IsZero(a) THEN ~IsZero(b) /\ b.sgn = 0
  ELSE IF IsZero(b) THEN a.sgn = 1
  ELSE IF a.sgn # b.sgn THEN a.sgn = 1
  ELSE IF a.sgn = 0 THEN MagCmp(a, b) < 0 ELSE MagCmp(a, b) > 0

\* a == b; false when either is NaN
FEq(a, b) == a.cls # "nan" /\ b.cls # "nan" /\ a = b

FLessEq(a, b) == FLess(a, b) \/ FEq(a, b)

\* a + b.  An operand whose leading bit lies more than Prec + 3 places below
\* the other's is under a quarter of its last place and leaves it unchanged.
FAdd(a, b) ==
  IF a.cls = "nan" \/ b.cls = "nan" THEN FNaN
  ELSE IF a.cls = "inf" THEN IF b.cls = "inf" /\ a.sgn # b.sgn THEN FNaN ELSE a
  ELSE IF b.cls = "inf" THEN b
  ELSE IF IsZero(a) THEN b
  ELSE IF IsZero(b) THEN a
  ELSE IF Top(a) - Top(b) > Prec + 3 THEN a
  ELSE IF Top(b) - Top(a) > Prec + 3 THEN b
  ELSE LET e == Min(a.exp, b.exp)
           x == BShl(a.man, a.exp - e)
           y == BShl(b.man, b.exp - e)
           c == BCmp(x, y)
       IN IF a.sgn = b.sgn THEN FRound(a.sgn, BAdd(x, y), e, FALSE)
          ELSE IF c = 0 THEN FZero
          ELSE IF c > 0 THEN FRound(a.sgn, BSub(x, y), e, FALSE)
          ELSE FRound(b.sgn, BSub(y, x), e, FALSE)

FSub(a, b) == FAdd(a, FNeg(b))

FMul(a, b) ==
  IF a.cls = "nan" \/ b.cls = "nan" THEN FNaN
  ELSE IF a.cls = "inf" \/ b.cls = "inf"
       THEN IF IsZero(a) \/ IsZero(b) THEN FNaN ELSE FInf((a.sgn + b.sgn) % 2)
  ELSE IF IsZero(a) \/ IsZero(b) THEN FZero
  ELSE FRound((a.sgn + b.sgn) % 2, BMul(a.man, b.man), a.exp + b.exp, FALSE)

\* a / b as numpy's true_divide gives it: x / 0 is an infinity, 0 / 0 is NaN
\* (with a RuntimeWarning, not an exception)
FDiv(a, b) ==
  IF a.cls = "nan" \/ b.cls = "nan" THEN FNaN
  ELSE IF a.cls = "inf" THEN IF b.cls = "inf" THEN FNaN ELSE FInf((a.sgn + b.sgn) % 2)
  ELSE IF b.cls = "inf" THEN FZero
  ELSE IF IsZero(b) THEN IF IsZero(a) THEN FNaN ELSE FInf(a.sgn)
  ELSE IF IsZero(a) THEN FZero
  ELSE LET k == Max(0, Prec + 3 + BBits(b.man) - BBits(a.man))
           p == BDivMod(BShl(a.man, k), b.man)
       IN FRound((a.sgn + b.sgn) % 2, p[1], a.exp - b.exp - k, p[2] # << >>)

FSqrt(a) ==
  IF a.cls = "nan" THEN FNaN
  ELSE IF IsZero(a) THEN FZero
  ELSE IF a.sgn = 1 THEN FNaN
  ELSE IF a.cls = "inf" THEN a
  ELSE LET k0 == Max(0, 2 * (Prec + 2) - BBits(a.man))
           k == IF (a.exp - k0) % 2 = 0 THEN k0 ELSE k0 + 1
           n == BShl(a.man, k)
           r == BSqrt(n)
       IN FRound(0, r, (a.exp - k) \div 2, BMul(r, r) # n)

\* the float of an integer
FromInt(n) ==
  IF n = 0 THEN FZero
  ELSE IF n < 0 THEN FCanon(1, BFromInt(-n), 0)
  ELSE FCanon(0, BFromInt(n), 0)

(***************************************************************************)
(* numpy: np.mean, np.std and np.sqrt on float64.                           *)
(***************************************************************************)
\* res + a[lo] + ... + a[hi], added left to right
RECURSIVE AddUpTo(_, _, _, _)
AddUpTo(a, res, lo, hi) ==
  IF hi < lo THEN res ELSE FAdd(AddUpTo(a, res, lo, hi - 1), a[hi])

\* a[k] + a[k - 8] + ... down to the first block of 8: one of the 8 accumulators
RECURSIVE Lane(_, _)
Lane(a, k) == IF k <= 8 THEN a[k] ELSE FAdd(Lane(a, k - 8), a[k])

PW_BLOCKSIZE == 128

\* the 8 accumulators over the whole blocks of 8 that end at index m
Lanes(a, m) == [j \in 1..8 |-> Lane(a, m - 8 + j)]

\* adjacent elements added: <<r1 + r2, r3 + r4, ...>>
AddPairs(r) == [j \in 1..(Len(r) \div 2) |-> FAdd(r[2 * j - 1], r[2 * j])]

\* ((r1 + r2) + (r3 + r4)) + ((r5 + r6) + (r7 + r8))
RECURSIVE AddTree(_)
AddTree(r) == IF Len(r) = 1 THEN r[1] ELSE AddTree(AddPairs(r))

\* numpy's summation of a contiguous float64 array: fewer than 8 elements are
\* added one by one; up to 128 go through 8 accumulators, the elements after
\* the last whole block of 8 then added one by one; more are split in two.
RECURSIVE pairwise_sum(_)
pairwise_sum(a) ==
  IF Len(a) > PW_BLOCKSIZE
  THEN LET h == Len(a) \div 2
           n2 == h - (h % 8)
       IN AddTree(<<pairwise_sum(SubSeq(a, 1, n2)),
                    pairwise_sum(SubSeq(a, n2 + 1, Len(a)))>>)
  ELSE LET m == IF Len(a) < 8 THEN 0 ELSE Len(a) - (Len(a) % 8)
       IN AddUpTo(a, IF m = 0 THEN FZero ELSE AddTree(Lanes(a, m)), m + 1, Len(a))

\* np.add.reduce: the identity 0.0, plus the sum
umr_sum(a) == FAdd(FZero, pairwise_sum(a))

\* np.mean of a list: the sum over the count (0 / 0 = nan for an empty list)
np_mean(a) == FDiv(umr_sum(a), FromInt(Len(a)))

\* x = arr - arrmean
Deviations(a, arrmean) == [i \in 1..Len(a) |-> FSub(a[i], arrmean)]

\* x = x * x
Squares(x) == [i \in 1..Len(x) |-> FMul(x[i], x[i])]

\* np.var(a, ddof): the squared deviations from the mean, summed, over
\* max(n - ddof, 0)
np_var(a, ddof) ==
  FDiv(umr_sum(Squares(Deviations(a, FDiv(umr_sum(a), FromInt(Len(a)))))),
       FromInt(Max(Len(a) - ddof, 0)))

\* a faulty np.std: ddof dropped, the squared deviations divided by n
np_std_ddof_ignored(a, ddof) == FSqrt(np_var(a, 0))

np_std(a, ddof) == FSqrt(np_var(a, ddof))

np_sqrt(x) == FSqrt(x)

(***************************************************************************)
(* scipy.stats.t: interval and ppf of rv_continuous, and the quantile of   *)
(* the standard t distribution.                                            *)
(***************************************************************************)
F0 == FZero

F1 == FromInt(1)

F2 == FromInt(2)

FHalf == FDiv(F1, F2)

\* <<df, q, t>>: the quantile t of Student's t distribution with df degrees of
\* freedom at the upper-tail probability q, in float64, for the degrees of
\* freedom and the confidence levels of the inputs below; df = 19 and df = 999
\* are those of the notebook's two examples.  t(0.975; 19) is the value that
\* the first example's recorded output was computed with; the other rows are
\* the quantile rounded to the nearest float64.
TQuantiles == {
     <<1, Dbl(0, <<3>>, -2),
         Dbl(0, <<1>>, 0)>>   \* t(0.75; 1) = 1.0
  ,  <<1, Dbl(0, <<13107, 26214, 19660, 249>>, -53),
         Dbl(0, <<9871, 10956, 21287, 101>>, -48)>>   \* t(0.975; 1) = 12.706204736174694
  ,  <<1, Dbl(0, <<9175, 31457, 23592, 254>>, -53),
         Dbl(0, <<17347, 773, 29956, 15>>, -43)>>   \* t(0.995; 1) = 63.656741162871526
  ,  <<2, Dbl(0, <<3>>, -2),
         Dbl(0, <<5663, 28684, 16762, 104>>, -52)>>   \* t(0.75; 2) = 0.816496580927726
  ,  <<2, Dbl(0, <<13107, 26214, 19660, 249>>, -53),
         Dbl(0, <<18105, 12738, 22442, 137>>, -50)>>   \* t(0.975; 2) = 4.302652729749462
  ,  <<2, Dbl(0, <<9175, 31457, 23592, 254>>, -53),
         Dbl(0, <<30671, 17170, 27842, 19>>, -46)>>   \* t(0.995; 2) = 9.92484320091829
  ,  <<3, Dbl(0, <<3>>, -2),
         Dbl(0, <<10129, 29661, 26621, 195>>, -53)>>   \* t(0.75; 3) = 0.7648923284043453
  ,  <<3, Dbl(0, <<13107, 26214, 19660, 249>>, -53),
         Dbl(0, <<16809, 20775, 22169, 203>>, -51)>>   \* t(0.975; 3) = 3.1824463052837086
  ,  <<3, Dbl(0, <<9175, 31457, 23592, 254>>, -53),
         Dbl(0, <<6773, 21792, 11915, 23>>, -47)>>   \* t(0.995; 3) = 5.840909309733355
  ,  <<4, Dbl(0, <<3>>, -2),
         Dbl(0, <<13701, 15904, 20265, 189>>, -53)>>   \* t(0.75; 4) = 0.7406970841126826
  ,  <<4, Dbl(0, <<13107, 26214, 19660, 249>>, -53),
         Dbl(0, <<23279, 23023, 27729, 88>>, -50)>>   \* t(0.975; 4) = 2.7764451051977934
  ,  <<4, Dbl(0, <<9175, 31457, 23592, 254>>, -53),
         Dbl(0, <<1191, 12577, 10847, 147>>, -50)>>   \* t(0.995; 4) = 4.604094871349992
  ,  <<5, Dbl(0, <<3>>, -2),
         Dbl(0, <<19715, 2339, 1043, 186>>, -53)>>   \* t(0.75; 5) = 0.7266868438004227
  ,  <<5, Dbl(0, <<13107, 26214, 19660, 249>>, -53),
         Dbl(0, <<16359, 19815, 18502, 20>>, -48)>>   \* t(0.975; 5) = 2.5705818356363146
  ,  <<5, Dbl(0, <<9175, 31457, 23592, 254>>, -53),
         Dbl(0, <<21701, 5916, 16852, 64>>, -49)>>   \* t(0.995; 5) = 4.032142983555227
  ,  <<19, Dbl(0, <<3>>, -2),
         Dbl(0, <<6801, 27527, 16415, 5>>, -48)>>   \* t(0.75; 19) = 0.6876214602039603
  ,  <<19, Dbl(0, <<13107, 26214, 19660, 249>>, -53),
         Dbl(0, <<26117, 19062, 31245, 133>>, -51)>>   \* t(0.975; 19) = 2.093024054408263
  ,  <<19, Dbl(0, <<9175, 31457, 23592, 254>>, -53),
         Dbl(0, <<3071, 11990, 18019, 91>>, -50)>>   \* t(0.995; 19) = 2.860934606464979
  ,  <<999, Dbl(0, <<3>>, -2),
         Dbl(0, <<3509, 28217, 23994, 172>>, -53)>>   \* t(0.75; 999) = 0.674735410346719
  ,  <<999, Dbl(0, <<13107, 26214, 19660, 249>>, -53),
         Dbl(0, <<14691, 10482, 19328, 125>>, -51)>>   \* t(0.975; 999) = 1.9623414611334495
  ,  <<999, Dbl(0, <<9175, 31457, 23592, 254>>, -53),
         Dbl(0, <<26301, 21441, 21170, 20>>, -48)>>   \* t(0.995; 999) = 2.5807596372676365
}

UpperQuantile(df, q) == (CHOOSE r \in TQuantiles : r[1] = df /\ r[2] = q)[3]

\* What scipy.special.stdtrit gives at q = 0.5 is the result of the library's
\* search for the quantile, code that is not part of the notebook: 0 or a
\* residual of the size of the rounding, 2^-52, of either sign.  It is one
\* value, the same at every call, kept in t_median.
MedianResiduals == {F0, Dbl(0, <<1>>, -52), Dbl(1, <<1>>, -52)}

\* scipy.special.stdtrit(df, q), what t._ppf evaluates: at 0.5 the library's
\* median, above it the tabulated quantile, below it the negation of the
\* quantile at 1 - q
stdtrit(df, q) ==
  IF FEq(q, FHalf) THEN t_median
  ELSE IF FLess(q, FHalf) THEN FNeg(UpperQuantile(df, FSub(F1, q)))
  ELSE UpperQuantile(df, q)

\* t._argcheck: the shape parameter must be positive
t_argcheck(df) == df > 0

\* rv_continuous.ppf(q, df, loc, scale).  Bad arguments, a scale that is not
\* positive among them, give nan; q = 0 and q = 1 give the ends of the support.
ppf(q, df, loc, scale) ==
  LET cond0 == t_argcheck(df) /\ FLess(F0, scale) /\ FEq(loc, loc)
      cond1 == FLess(F0, q) /\ FLess(q, F1)
  IN IF cond0 /\ FEq(q, F0) THEN FAdd(FMul(FInf(1), scale), loc)
     ELSE IF cond0 /\ FEq(q, F1) THEN FAdd(FMul(FInf(0), scale), loc)
     ELSE IF cond0 /\ cond1 THEN FAdd(FMul(stdtrit(df, q), scale), loc)
     ELSE FNaN

Raised == [ret |-> "ValueError", lower |-> FNaN, upper |-> FNaN]

Returned(a, b) == [ret |-> "tuple", lower |-> a, upper |-> b]

\* a faulty range check: every confidence level accepted
alpha_never_rejected(alpha) == FALSE

\* the one check of rv_continuous.interval: "alpha must be between 0 and 1
\* inclusive"
alpha_out_of_range(alpha) == FLess(F1, alpha) \/ FLess(alpha, F0)

\* a faulty interval: raises for df < 1 as well
interval_df_validated(confidence, df, loc, scale) ==
  IF alpha_out_of_range(confidence) \/ df < 1 THEN Raised
  ELSE Returned(ppf(FDiv(FSub(F1, confidence), F2), df, loc, scale),
                ppf(FDiv(FAdd(F1, confidence), F2), df, loc, scale))

\* a faulty interval: both ends taken at (1 - confidence) / 2
interval_one_tail(confidence, df, loc, scale) ==
  IF alpha_out_of_range(confidence) THEN Raised
  ELSE Returned(ppf(FDiv(FSub(F1, confidence), F2), df, loc, scale),
                ppf(FDiv(FSub(F1, confidence), F2), df, loc, scale))

\* rv_continuous.interval(confidence, df, loc, scale)
interval(confidence, df, loc, scale) ==
  IF alpha_out_of_range(confidence) THEN Raised
  ELSE LET q1 == FDiv(FSub(F1, confidence), F2)
           q2 == FDiv(FAdd(F1, confidence), F2)
       IN Returned(ppf(q1, df, loc, scale), ppf(q2, df, loc, scale))

(***************************************************************************)
(* Inputs.                                                                 *)
(***************************************************************************)
\* longest sample drawn
MaxN == 3

\* 1.0, 3.0 and 0.1
Values == {FromInt(1), FromInt(3), Dbl(0, <<19661, 6553, 13107, 102>>, -55)}

\* sample_chol_levels of the first example
CholLevels ==
  [i \in 1..20 |->
     FromInt(<<66, 36, 73, 48, 81, 69, 75, 81, 73,
               69, 101, 70, 50, 42, 36, 71, 65, 43, 76, 24>>[i])]

\* the short samples, and the 20 values of the first example
Samples == (UNION {[1..n -> Values] : n \in 0..MaxN}) \cup {CholLevels}

\* size = 1000
SampleSize == 1000

\* The notebook does not seed numpy's generator: which array comes out is not
\* determined, and the arrays of the runs whose output the notebook shows are
\* not recorded.  The model takes one array per run.
MaxRun == 11

Runs == 0..MaxRun

\* one of 12 values in 0..1008 that change with the run and with i
Uniform(run, i, j) ==
  ((((((i + 83 * j + run) * (i + 83 * j + run)) % 1009) * (i + 83 * j + run)) % 1009)
     * (2 * j + 1) + 5 * run * j) % 1009

RECURSIVE SumUniform(_, _, _)
SumUniform(run, i, j) ==
  IF j = 0 THEN 0 ELSE Uniform(run, i, j) + SumUniform(run, i, j - 1)

\* a draw of mean 0 and standard deviation 1, bell-shaped between -6 and 6:
\* the 12 values summed, centred and scaled
BellDraw(run, i) == FDiv(FromInt(SumUniform(run, i, 12) - 6048), FromInt(1009))

\* Runs 0 and 1 are the two runs the notebook shows output of: the draws of
\* run 0 give the statistics shown (mean 54.20596268494621, standard deviation
\* 17.529534984840886, standard error 0.5543325687570239), the draws of run 1
\* the interval shown, (52.977254492465704, 55.095214507744345).  For each:
\* the first two draws, and the scale and the shift of the others.
ShownRuns == <<
  [first |-> <<Dbl(0, <<4335, 27851, 18702, 146>>, -52),
               Dbl(1, <<32549, 10457, 29295, 15>>, -49)>>,
   scale |-> Dbl(0, <<18545, 25330, 15162, 134>>, -52),
   shift |-> Dbl(0, <<31161, 17889, 4412, 101>>, -58)],
  [first |-> <<Dbl(0, <<20853, 21976, 3827, 161>>, -53),
               Dbl(0, <<28373, 5689, 2851, 120>>, -53)>>,
   scale |-> Dbl(0, <<31997, 6374, 318, 131>>, -52),
   shift |-> Dbl(1, <<18169, 7899, 1790, 109>>, -59)]>>

\* the i-th draw of the standard normal
standard_normal(run, i) ==
  IF run >= Len(ShownRuns) THEN BellDraw(run, i)
  ELSE IF i <= 2 THEN ShownRuns[run + 1].first[i]
  ELSE FAdd(ShownRuns[run + 1].shift,
            FMul(ShownRuns[run + 1].scale, BellDraw(run, i)))

\* np.random.normal(loc, scale, size): loc + scale * z, for each of size draws
\* z of the standard normal
np_random_normal(run, loc, scale, size) ==
  [i \in 1..size |-> FAdd(loc, FMul(scale, standard_normal(run, i)))]

\* 0.95, the confidence level of both calls of the notebook
Confidence95 == Dbl(0, <<13107, 26214, 19660, 121>>, -52)

\* -0.5, 0.0, 1e-20, 2e-20, 0.5, 0.95, 0.99, 1.0 and 1.5
Confidences ==
  {Dbl(1, <<1>>, -1), F0, Dbl(0, <<16931, 6436, 29316, 188>>, -119), Dbl(0, <<16931, 6436, 29316, 188>>, -118), Dbl(0, <<1>>, -1),
   Confidence95, Dbl(0, <<9175, 31457, 23592, 126>>, -52), F1, Dbl(0, <<3>>, -1)}

\* a name not bound yet
Unbound == [cls |-> "unbound", sgn |-> 0, man |-> << >>, exp |-> 0]

(***************************************************************************)
(* The code cells.  out is the list of the interval calls made so far: the *)
(* arguments of each and what it gave.                                     *)
(***************************************************************************)
\* one call of interval: its arguments, and what it gave
Call(confidence, df, loc, scale) ==
  [confidence |-> confidence, df |-> df, loc |-> loc, scale |-> scale]
    @@ interval(confidence, df, loc, scale)

\* x_bar = np.mean(...); s = np.std(..., ddof = 1); se = s/np.sqrt(len(...))
Stats(from, to) ==
  /\ pc = from
  /\ x_bar' = np_mean(sample_chol_levels)
  /\ s' = np_std(sample_chol_levels, 1)
  /\ se' = FDiv(s', np_sqrt(FromInt(Len(sample_chol_levels))))
  /\ pc' = to
  /\ UNCHANGED <<sample_chol_levels, out, t_median>>

\* stats.t.interval(confidence, df = len(...) - 1, loc = x_bar, scale = se)
CallInterval(from, to, confidence) ==
  /\ pc = from
  /\ out' = Append(out, Call(confidence, Len(sample_chol_levels) - 1, x_bar, se))
  /\ pc' = to
  /\ UNCHANGED <<sample_chol_levels, x_bar, s, se, t_median>>

\* The computation on any sample: the statistics, then the interval at one
\* confidence level and at another.
Init ==
  /\ pc = "stats"
  /\ sample_chol_levels \in Samples
  /\ x_bar = Unbound /\ s = Unbound /\ se = Unbound
  /\ out = << >>
  /\ t_median \in MedianResiduals

ComputeStatistics == Stats("stats", "interval")

FirstCall == \E c \in Confidences : CallInterval("interval", "again", c)

SecondCall == \E c \in Confidences : CallInterval("again", "done", c)

Next == ComputeStatistics \/ FirstCall \/ SecondCall

Spec == Init /\ [][Next]_vars

\* The notebook, its code cells run in document order.
NotebookInit ==
  /\ pc = "import_numpy"
  /\ sample_chol_levels = << >>
  /\ x_bar = Unbound /\ s = Unbound /\ se = Unbound
  /\ out = << >>
  /\ t_median \in MedianResiduals

ImportNumpy ==
  /\ pc = "import_numpy" /\ pc' = "bind"
  /\ UNCHANGED <<sample_chol_levels, x_bar, s, se, out, t_median>>

BindSample ==
  /\ pc = "bind" /\ pc' = "stats"
  /\ sample_chol_levels' = CholLevels
  /\ UNCHANGED <<x_bar, s, se, out, t_median>>

FirstStats == Stats("stats", "import_stats")

ImportStats ==
  /\ pc = "import_stats" /\ pc' = "interval"
  /\ UNCHANGED <<sample_chol_levels, x_bar, s, se, out, t_median>>

FirstInterval == CallInterval("interval", "rebind", Confidence95)

RebindSample ==
  /\ pc = "rebind" /\ pc' = "stats2"
  /\ \E run \in Runs :
       sample_chol_levels' = np_random_normal(run, FromInt(54), FromInt(17), SampleSize)
  /\ UNCHANGED <<x_bar, s, se, out, t_median>>

\* a faulty recomputation: se left as the first example computed it
RecomputeStats_stale_se ==
  /\ pc = "stats2" /\ pc' = "interval2"
  /\ x_bar' = np_mean(sample_chol_levels)
  /\ s' = np_std(sample_chol_levels, 1)
  /\ UNCHANGED <<sample_chol_levels, se, out, t_median>>

\* a faulty recomputation: x_bar left as the first example computed it
RecomputeStats_stale_mean ==
  /\ pc = "stats2" /\ pc' = "interval2"
  /\ s' = np_std(sample_chol_levels, 1)
  /\ se' = FDiv(s', np_sqrt(FromInt(Len(sample_chol_levels))))
  /\ UNCHANGED <<sample_chol_levels, x_bar, out, t_median>>

RecomputeStats == Stats("stats2", "interval2")

SecondInterval == CallInterval("interval2", "done", Confidence95)

NotebookNext ==
  \/ ImportNumpy \/ BindSample \/ FirstStats \/ ImportStats \/ FirstInterval
  \/ RebindSample \/ RecomputeStats \/ SecondInterval

NotebookSpec == NotebookInit /\ [][NotebookNext]_vars

(***************************************************************************)
(* The computation as one function of the sample and the confidence level: *)
(* the statistics cell followed by the interval call.                      *)
(***************************************************************************)
computeConfidenceInterval(sample, confidenceLevel) ==
  interval(confidenceLevel, Len(sample) - 1, np_mean(sample),
           FDiv(np_std(sample, 1), np_sqrt(FromInt(Len(sample)))))

(***************************************************************************)
(* Properties.                                                             *)
(***************************************************************************)
Calls == DOMAIN out

\* a call on a sample of at least 2 values at a confidence level inside (0, 1)
ValidCall(i) ==
  /\ out[i].df >= 1
  /\ FLess(F0, out[i].confidence) /\ FLess(out[i].confidence, F1)

AllEqual(a) == \A k \in DOMAIN a : a[k] = a[1]

Width(i) == FSub(out[i].upper, out[i].lower)

\* 2^-30, about 1e-9: the order of a sum, and the residual of the quantile at
\* 0.5, change the last bits of a result
Tolerance == Dbl(0, <<1>>, -30)

WithinTolerance(a, b) ==
  FLessEq(FSub(a, b), Tolerance) /\ FLessEq(FSub(b, a), Tolerance)

\* a and b differ by at most the tolerance times scale
WithinToleranceOf(a, b, scale) ==
  /\ FLessEq(FSub(a, b), FMul(Tolerance, scale))
  /\ FLessEq(FSub(b, a), FMul(Tolerance, scale))

\* C1: for a sample of at least 2 values and a confidence level inside (0, 1)
\* the interval has lower <= upper, and lower = upper only when the standard
\* error is 0.
C1_LowerAtMostUpper ==
  \A i \in Calls :
    ValidCall(i) =>
      /\ out[i].ret = "tuple"
      /\ FLessEq(out[i].lower, out[i].upper)
      /\ FEq(out[i].lower, out[i].upper) => FEq(out[i].scale, F0)

\* C2: for a sample of at least 2 values all equal to v and a confidence level
\* inside (0, 1), the standard error is 0 and the interval is (v, v).
C2_IdenticalValuesGivePoint ==
  \A i \in Calls :
    (ValidCall(i) /\ AllEqual(sample_chol_levels)) =>
      /\ FEq(out[i].scale, F0)
      /\ out[i].ret = "tuple"
      /\ FEq(out[i].lower, sample_chol_levels[1])
      /\ FEq(out[i].upper, sample_chol_levels[1])

\* C3, as stated: a sample of fewer than 2 values makes the computation fail
\* with an error, no interval returned.
C3_TooFewValuesFail ==
  \A i \in Calls : Len(sample_chol_levels) < 2 => out[i].ret = "ValueError"

\* C3, amended: a sample of fewer than 2 values does not make the computation
\* fail.  At a confidence level within [0, 1] it returns the pair (nan, nan);
\* it raises ValueError only at a confidence level below 0 or above 1.
C3_TooFewValuesGiveNaN ==
  \A i \in Calls :
    Len(sample_chol_levels) < 2 =>
      IF FLess(out[i].confidence, F0) \/ FLess(F1, out[i].confidence)
      THEN out[i].ret = "ValueError"
      ELSE out[i].ret = "tuple" /\ IsNaN(out[i].lower) /\ IsNaN(out[i].upper)

C3_Witness ==
  /\ Len(sample_chol_levels) = 1
  /\ \E i \in Calls :
       /\ out[i].confidence = Confidence95
       /\ out[i].ret = "tuple" /\ IsNaN(out[i].lower) /\ IsNaN(out[i].upper)

C5_StrictlyWider ==
  \A i, j \in Calls :
    (/\ ValidCall(i) /\ ValidCall(j) /\ FLess(F0, out[i].scale)
     /\ FLess(out[i].confidence, out[j].confidence)) =>
      /\ FLess(Width(i), Width(j))
      /\ FLessEq(out[j].lower, out[i].lower)
      /\ FLessEq(out[i].upper, out[j].upper)

\* C5, amended: for a sample with a standard error above 0 and confidence
\* levels c1 < c2 inside (0, 1), the interval at c2 contains the interval at
\* c1 and is at least as wide; it need not be strictly wider, two levels so
\* close that (1 + c) / 2 rounds to the same float64 give the same interval.
C5_ContainsAndAtLeastAsWide ==
  \A i, j \in Calls :
    (/\ ValidCall(i) /\ ValidCall(j) /\ FLess(F0, out[i].scale)
     /\ FLess(out[i].confidence, out[j].confidence)) =>
      /\ FLessEq(Width(i), Width(j))
      /\ FLessEq(out[j].lower, out[i].lower)
      /\ FLessEq(out[i].upper, out[j].upper)

C5_Witness ==
  /\ Len(out) = 2
  /\ FLess(F0, out[1].scale)
  /\ out[1].confidence = Confidence95 /\ out[2].confidence = Dbl(0, <<9175, 31457, 23592, 126>>, -52)
  /\ FLess(Width(1), Width(2))
  /\ FLess(out[2].lower, out[1].lower) /\ FLess(out[1].upper, out[2].upper)

\* The reference formula of C6, its sums taken in order.
RefSum(a) == AddUpTo(a, F0, 1, Len(a))

RefMean(a) == FDiv(RefSum(a), FromInt(Len(a)))

RefSquaredDeviation(a, k) == FMul(FSub(a[k], RefMean(a)), FSub(a[k], RefMean(a)))

RefStdDev(a) ==
  FSqrt(FDiv(RefSum([k \in 1..Len(a) |-> RefSquaredDeviation(a, k)]),
             FromInt(Len(a) - 1)))

RefStdErr(a) == FDiv(RefStdDev(a), FSqrt(FromInt(Len(a))))

RefTCritical(a, c) == stdtrit(Len(a) - 1, FSub(F1, FDiv(FSub(F1, c), F2)))

RefMargin(a, c) == FMul(RefTCritical(a, c), RefStdErr(a))

\* C6: for a sample of at least 2 values and a confidence level inside (0, 1)
\* the result is, within the tolerance, (mean - tCritical * stderr,
\* mean + tCritical * stderr), with
\* mean = sum / n, stddev the square root of the squared deviations over n - 1,
\* stderr = stddev / sqrt(n) and tCritical the t quantile at
\* 1 - (1 - confidenceLevel) / 2 with n - 1 degrees of freedom.
C6_EqualsReferenceFormula ==
  \A i \in Calls :
    ValidCall(i) =>
      /\ out[i].ret = "tuple"
      /\ WithinTolerance(out[i].lower,
                         FSub(RefMean(sample_chol_levels),
                              RefMargin(sample_chol_levels, out[i].confidence)))
      /\ WithinTolerance(out[i].upper,
                         FAdd(RefMean(sample_chol_levels),
                              RefMargin(sample_chol_levels, out[i].confidence)))

\* C9: for a sample of at least 2 values and a confidence level inside (0, 1)
\* the interval is symmetric about the sample mean: its ends are the mean less
\* and the mean plus one margin, the upper critical value times the standard
\* error.
C9_SymmetricAboutMean ==
  \A i \in Calls :
    ValidCall(i) =>
      LET upperCritical == stdtrit(out[i].df, FDiv(FAdd(F1, out[i].confidence), F2))
      IN /\ FEq(out[i].lower, FSub(out[i].loc, FMul(upperCritical, out[i].scale)))
         /\ FEq(out[i].upper, FAdd(out[i].loc, FMul(upperCritical, out[i].scale)))

\* C7: for the 20 cholesterol values at confidence level 0.95 the mean is
\* 62.45, the standard deviation 19.2093 and the standard error 4.2953 to four
\* decimals, the degrees of freedom 19 and the interval (53.46, 71.44) to two
\* decimals.
C7_CholesterolExample ==
  /\ pc \in {"import_stats", "interval", "rebind"} =>
       /\ sample_chol_levels = CholLevels
       /\ x_bar = Dbl(0, <<19661, 6553, 29491, 124>>, -46)
       /\ FLessEq(Dbl(0, <<12321, 20709, 22085, 153>>, -48), s) /\ FLess(s, Dbl(0, <<27997, 32138, 6859, 19>>, -45))
       /\ FLessEq(Dbl(0, <<4981, 2097, 14680, 137>>, -50), se) /\ FLess(se, Dbl(0, <<32401, 30198, 14784, 137>>, -50))
  /\ Len(out) >= 1 =>
       /\ out[1].confidence = Confidence95 /\ out[1].df = 19
       /\ out[1].ret = "tuple"
       /\ FLessEq(Dbl(0, <<27525, 28835, 29818, 106>>, -46), out[1].lower) /\ FLess(out[1].lower, Dbl(0, <<5243, 3932, 15237, 53>>, -45))
       /\ FLessEq(Dbl(0, <<23593, 1310, 23511, 35>>, -44), out[1].upper) /\ FLess(out[1].upper, Dbl(0, <<27525, 28835, 23674, 35>>, -44))

\* the values the notebook shows: 62.45 19.209304214912432 4.295331002501743
\* and (53.4597688901183, 71.44023110988171)
C7_Witness ==
  /\ pc = "rebind"
  /\ x_bar = Dbl(0, <<19661, 6553, 29491, 124>>, -46)
  /\ s = Dbl(0, <<30399, 27659, 22099, 153>>, -48)
  /\ se = Dbl(0, <<30115, 41, 14765, 137>>, -50)
  /\ out[1].lower = Dbl(0, <<12719, 13565, 30131, 106>>, -46)
  /\ out[1].upper = Dbl(0, <<26603, 32309, 28850, 142>>, -46)

\* the sample bound to sample_chol_levels at the i-th interval call
SampleAt(i) == IF i = 1 THEN CholLevels ELSE sample_chol_levels

\* C8: the computation is a function of its two inputs alone: each interval
\* the notebook computes, the second after a computation on another sample, is
\* the one the computation gives for that sample and level when run first, and
\* a later computation leaves the earlier result as it was.
C8_NoInteractionBetweenCalls ==
  \A i \in Calls :
    LET fresh == computeConfidenceInterval(SampleAt(i), Confidence95)
    IN /\ out[i].ret = fresh.ret
       /\ out[i].lower = fresh.lower
       /\ out[i].upper = fresh.upper

\* the second interval the notebook shows
C8_Witness ==
  /\ Len(out) = 2
  /\ sample_chol_levels # CholLevels
  /\ out[2].ret = "tuple"
  /\ out[2].lower = Dbl(0, <<10259, 21915, 8005, 13>>, -43)
  /\ out[2].upper = Dbl(0, <<26351, 32677, 25355, 13>>, -43)
  /\ out[2].lower # out[1].lower /\ out[2].upper # out[1].upper

\* df, loc and scale of a call are those of sample, sd its standard deviation
ArgumentsFrom(call, sample, sd) ==
  /\ call.df = Len(sample) - 1
  /\ call.loc = np_mean(sample)
  /\ call.scale = FDiv(sd, np_sqrt(FromInt(Len(sample))))

\* C10: run in document order, each of the two interval calls takes df, loc
\* and scale from the sample bound to sample_chol_levels at that call: x_bar, s
\* and se are recomputed after the rebinding and before the second call.
C10_ArgumentsFromCurrentSample ==
  /\ pc \in {"interval", "interval2"} =>
       /\ x_bar = np_mean(sample_chol_levels)
       /\ s = np_std(sample_chol_levels, 1)
       /\ se = FDiv(s, np_sqrt(FromInt(Len(sample_chol_levels))))
  /\ \A i \in Calls : ArgumentsFrom(out[i], SampleAt(i), np_std(SampleAt(i), 1))

\* the second call, on the statistics the notebook shows for the second sample
C10_Witness ==
  /\ Len(out) = 2
  /\ out[1].df = 19 /\ out[2].df = SampleSize - 1
  /\ Len(sample_chol_levels) = SampleSize
  /\ x_bar = Dbl(0, <<1321, 30836, 26995, 216>>, -47)
  /\ s = Dbl(0, <<32095, 6865, 3871, 70>>, -47)
  /\ se = Dbl(0, <<26925, 20346, 29790, 141>>, -53)
  /\ out[2].loc = x_bar /\ out[2].scale = se
  /\ out[2].loc # out[1].loc /\ out[2].scale # out[1].scale

====
